---- MODULE Spec2Model ----
(***************************************************************************)
(* The data analysis dashboard of streamlit_app.py as a state machine.     *)
(*                                                                         *)
(* The script is run from its first line to its last on every user         *)
(* interaction.  What survives from one run to the next is the state of    *)
(* the widgets (the uploaded file, the selections); the dataframe df is a  *)
(* local of the run, read again from the uploaded file by line 36.         *)
(* An action below is one interaction followed by the whole run it         *)
(* triggers; the variables other than the widget states record what that   *)
(* run produced.                                                           *)
(***************************************************************************)
EXTENDS Integers, Sequences, FiniteSets, TLC

VARIABLES
    candidate,      \* the file the user holds and may upload (cell texts)
    uploaded_file,  \* value of the file_uploader widget (line 32)
    viz_type,       \* value of the visualization selectbox (line 57)
    date_sel,       \* position chosen in "Select date column" (line 135)
    value_sel,      \* position chosen in "Select value column" (line 136)
    freq,           \* value of "Select time frequency" (line 139)
    color_sel,      \* position chosen in "Select color variable" (line 105), 0 for "None"
    run,            \* what the last run of the script produced
    last_loaded,    \* history: dataframe read by the last successful read_csv
    fn_in,          \* argument of resample / the top-5 selection applied on its own
    fn_out          \* its result

vars == <<candidate, uploaded_file, viz_type, date_sel, value_sel, freq, color_sel, run,
          last_loaded, fn_in, fn_out>>

(***************************************************************************)
(* Bounds of the model.                                                    *)
(***************************************************************************)
\* an uploaded file has at most MaxCells data cells (columns x rows)
MaxCells == 4
\* rows of an uploaded file, and of the dataframe handed to resample when
\* it is applied on its own
MaxRows == 2
\* columns of the correlation matrix handed to the top-5 selection
MaxCorrCols == 4

(***************************************************************************)
(* Cell texts of the uploaded CSV and the values read_csv makes of them.   *)
(* A value is a record [k, s, n]: k its kind, s its text (strings only),   *)
(* n its number: a numeric value counted in halves, a date written         *)
(* yyyymmdd, or a boolean as 1 (True) or 0 (False).  read_csv keeps the    *)
(* spelling of a text only where it stores the text itself.                *)
(***************************************************************************)
IntTexts   == {"1"}
FloatTexts == {"1.50"}
NumTexts   == IntTexts \cup FloatTexts
TrueTexts  == {"True"}
FalseTexts == {"false"}
BoolTexts  == TrueTexts \cup FalseTexts
IsoDateTexts   == {"2024-01-01"}
SlashDateTexts == {"2024/01/03"}
DateTexts  == IsoDateTexts \cup SlashDateTexts
WordTexts  == {"abc"}
MissingText == ""
CellTexts  == NumTexts \cup BoolTexts \cup DateTexts \cup WordTexts \cup {MissingText}

NA       == [k |-> "na",   s |-> "", n |-> 0]
Str(t)   == [k |-> "str",  s |-> t,  n |-> 0]
Bool(b)  == [k |-> "bool", s |-> "", n |-> b]
Num(h)   == [k |-> "num",  s |-> "", n |-> h]
Date(d)  == [k |-> "date", s |-> "", n |-> d]

\* the number a numeric text denotes, in halves
NumValue(t) == CASE t = "1" -> 2 [] t = "1.50" -> 3

\* the boolean a boolean text denotes: read_csv takes True, TRUE, true for
\* True and False, FALSE, false for False
BoolValue(t) == IF t \in TrueTexts THEN 1 ELSE 0

\* the date a date text denotes, as yyyymmdd
DateValue(t) == CASE t = "2024-01-01" -> 20240101 [] t = "2024/01/03" -> 20240103

\* to_csv's text of an int64 value
FormatInt(h) == CASE h = 2 -> "1"

\* to_csv's text of a float64 value (repr of the float)
FormatFloat(h) == CASE h = 2 -> "1.0" [] h = 3 -> "1.5"

\* to_csv's text of a boolean: str(True), str(False)
FormatBool(b) == CASE b = 1 -> "True" [] b = 0 -> "False"

\* to_csv's text of a datetime64 value whose time of day is midnight
FormatDate(d) ==
    CASE d = 20231230 -> "2023-12-30"
      [] d = 20240101 -> "2024-01-01"
      [] d = 20240103 -> "2024-01-03"
      [] d = 20250102 -> "2025-01-02"

\* column names of the frames handed to resample and to the top-5 selection
\* when they are applied on their own
ColNames == <<"c1", "c2", "c3", "c4", "c5", "c6">>

\* the header texts of an uploaded file: a name, or nothing
HeaderNames == <<"c1", "c2", "c3">>
BlankHeader == ""

(***************************************************************************)
(* Uploaded files.  A file is its header row (one text per column) and the *)
(* sequence of its columns, a column the sequence of its cell texts; the   *)
(* file of no bytes has neither.  A file has at most one column per header *)
(* name.  Its headers are either the names in order, or the first name in  *)
(* every place but the last, which is blank.  The non-missing texts of a   *)
(* column are of one lexical class (numbers, booleans, dates of one        *)
(* format), possibly mixed with words.                                     *)
(***************************************************************************)
LexClasses == {NumTexts, BoolTexts, IsoDateTexts, SlashDateTexts}

ColumnTexts(r) ==
    { c \in [1..r -> CellTexts] :
        \E L \in LexClasses :
            \A j \in 1..r : c[j] \in L \cup WordTexts \cup {MissingText} }

Shapes == { s \in (1..Len(HeaderNames)) \X (1..MaxRows) : s[1] * s[2] <= MaxCells }

\* the header rows of a file of c columns
HeaderRows(c) ==
    { SubSeq(HeaderNames, 1, c),
      [i \in 1..c |-> IF i = c THEN BlankHeader ELSE HeaderNames[1]] }

\* the files of c columns and r rows
CsvFiles(c, r) ==
    { [header |-> h, cols |-> b] : h \in HeaderRows(c), b \in [1..c -> ColumnTexts(r)] }

EmptyFile == [header |-> << >>, cols |-> << >>]

NoUpload == [has |-> FALSE, header |-> << >>, cols |-> << >>]
Uploaded(f) == [has |-> TRUE, header |-> f.header, cols |-> f.cols]

(***************************************************************************)
(* pd.read_csv (line 36)                                                   *)
(***************************************************************************)
NonMissing(cells) == { cells[j] : j \in { i \in DOMAIN cells : cells[i] # MissingText } }
HasMissing(cells) == \E j \in DOMAIN cells : cells[j] = MissingText

\* the dtype read_csv infers for a column from its texts
InferDtype(cells) ==
    IF Len(cells) = 0 THEN "object"
    ELSE IF NonMissing(cells) = {} THEN "float64"
    ELSE IF NonMissing(cells) \subseteq IntTexts
         THEN (IF HasMissing(cells) THEN "float64" ELSE "int64")
    ELSE IF NonMissing(cells) \subseteq NumTexts THEN "float64"
    ELSE IF NonMissing(cells) \subseteq BoolTexts /\ ~HasMissing(cells) THEN "bool"
    ELSE "object"

\* a read_csv that keeps a boolean as the text it was spelled with
ParseCellBoolAsText(dtype, boolish, t) ==
    IF t = MissingText THEN NA
    ELSE IF dtype \in {"int64", "float64"} THEN Num(NumValue(t))
    ELSE Str(t)

\* the value read_csv stores for a cell; boolish: every non-missing text of
\* the column is a boolean (an object column then holds booleans and NaN)
ParseCell(dtype, boolish, t) ==
    IF t = MissingText THEN NA
    ELSE IF dtype \in {"int64", "float64"} THEN Num(NumValue(t))
    ELSE IF dtype = "bool" \/ boolish THEN Bool(BoolValue(t))
    ELSE Str(t)

ReadColumn(name, cells) ==
    [name  |-> name,
     dtype |-> InferDtype(cells),
     cells |-> [j \in DOMAIN cells |->
                  ParseCell(InferDtype(cells), NonMissing(cells) \subseteq BoolTexts,
                            cells[j])]]

\* the name read_csv gives the column at 0-based position i of a blank header
Unnamed(i) ==
    CASE i = 0 -> "Unnamed: 0" [] i = 1 -> "Unnamed: 1" [] i = 2 -> "Unnamed: 2"
      [] i = 3 -> "Unnamed: 3" [] i = 4 -> "Unnamed: 4" [] i = 5 -> "Unnamed: 5"

\* the name read_csv gives the k-th repetition of a header: header.k
Repeated(name, k) ==
    CASE name = "c1" /\ k = 1 -> "c1.1" [] name = "c1" /\ k = 2 -> "c1.2"
      [] name = "c1" /\ k = 3 -> "c1.3" [] name = "c1" /\ k = 4 -> "c1.4"
      [] name = "c2" /\ k = 1 -> "c2.1" [] name = "c2" /\ k = 2 -> "c2.2"
      [] name = "c2" /\ k = 3 -> "c2.3" [] name = "c3" /\ k = 1 -> "c3.1"
      [] name = "c3" /\ k = 2 -> "c3.2"

\* how many headers to the left of position i have the text of header i
Earlier(header, i) == Cardinality({ j \in 1..(i - 1) : header[j] = header[i] })

\* the column names read_csv makes of the header row: a blank header is
\* named after its position, a repeated one gets a numbered suffix
ColumnName(header, i) ==
    IF header[i] = BlankHeader THEN Unnamed(i - 1)
    ELSE IF Earlier(header, i) = 0 THEN header[i]
    ELSE Repeated(header[i], Earlier(header, i))

\* the lines of the file, each the sequence of its fields: the header line,
\* then one line per row
Lines(file) ==
    IF Len(file.header) = 0 THEN << >>
    ELSE <<file.header>> \o
         [j \in 1..Len(file.cols[1]) |-> [i \in 1..Len(file.cols) |-> file.cols[i][j]]]

\* a line of no characters: the one empty field of a one-column file (a
\* line of several empty fields holds their separators)
NotBlankLine(line) == ~(Len(line) = 1 /\ line[1] = MissingText)

\* read_csv skips blank lines (skip_blank_lines=True), the header line or not
NonBlankLines(file) == SelectSeq(Lines(file), NotBlankLine)

\* read_csv raises EmptyDataError on a file with no columns to parse
ReadCsvRaises(file) == Len(NonBlankLines(file)) = 0

\* the first line left is the header line, every other one a row
ReadCsv(file) ==
    LET header == Head(NonBlankLines(file))
        rows   == Tail(NonBlankLines(file))
    IN  [i \in 1..Len(header) |->
           ReadColumn(ColumnName(header, i), [j \in 1..Len(rows) |-> rows[j][i]])]

(***************************************************************************)
(* df.select_dtypes(include=...).columns : the names, in stored order      *)
(***************************************************************************)
RECURSIVE SelectFrom(_, _, _)
SelectFrom(df, include, i) ==
    IF i > Len(df) THEN << >>
    ELSE (IF df[i].dtype \in include THEN <<df[i].name>> ELSE << >>)
         \o SelectFrom(df, include, i + 1)

SelectDtypes(df, include) == SelectFrom(df, include, 1)

NumericDtypes  == {"float64", "int64"}
DatetimeDtypes == {"datetime64"}
ObjectDtypes   == {"object"}
AllDtypes      == {"float64", "int64", "bool", "object", "datetime64"}

ColPos(df, name) == CHOOSE i \in 1..Len(df) : df[i].name = name

Range(s) == { s[i] : i \in DOMAIN s }

(***************************************************************************)
(* pd.to_datetime(df[col]) of the fallback (line 129)                      *)
(***************************************************************************)
\* a value to_datetime accepts: a missing value or the text of a date
ParsesAsDate(v) == v.k = "na" \/ (v.k = "str" /\ v.s \in DateTexts)

\* a to_datetime that also fails on a missing value
ToDatetimeRaisesOnMissing(col) ==
    \E j \in DOMAIN col.cells : ~(col.cells[j].k = "str" /\ col.cells[j].s \in DateTexts)

\* to_datetime raises when any value of the column fails to parse
ToDatetimeRaises(col) == \E j \in DOMAIN col.cells : ~ParsesAsDate(col.cells[j])

ToDatetimeValue(v) == IF v.k = "na" THEN NA ELSE Date(DateValue(v.s))

\* a conversion that replaces the values and leaves the dtype object
ToDatetimeKeepsDtype(col) ==
    [name  |-> col.name,
     dtype |-> col.dtype,
     cells |-> [j \in DOMAIN col.cells |->
                  IF col.cells[j].k = "na" THEN NA ELSE Date(DateValue(col.cells[j].s))]]

\* df[col] = pd.to_datetime(df[col]) : the column with its values and dtype replaced
ToDatetime(col) ==
    [name  |-> col.name,
     dtype |-> "datetime64",
     cells |-> [j \in DOMAIN col.cells |-> ToDatetimeValue(col.cells[j])]]

\* the loop with `break` in place of `continue`: it ends at the first column
\* that fails to parse
RECURSIVE FallbackLoopBreak(_, _, _)
FallbackLoopBreak(st, names, i) ==
    IF i > Len(names) THEN st
    ELSE LET p   == ColPos(st.df, names[i])
             col == st.df[p]
         IN  IF \E j \in DOMAIN col.cells : ~ParsesAsDate(col.cells[j])
             THEN [st EXCEPT !.attempts = @ + 1]
             ELSE FallbackLoopBreak([df        |-> [st.df EXCEPT ![p] =
                                                      [name  |-> col.name,
                                                       dtype |-> "datetime64",
                                                       cells |-> [j \in DOMAIN col.cells |->
                                                                    IF col.cells[j].k = "na" THEN NA
                                                                    ELSE Date(DateValue(col.cells[j].s))]]],
                                     date_cols |-> Append(st.date_cols, names[i]),
                                     attempts  |-> st.attempts + 1],
                                    names, i + 1)

\* the loop of lines 127-132 over the object columns `names`, from position i:
\* st = [df, date_cols, attempts]
RECURSIVE FallbackLoop(_, _, _)
FallbackLoop(st, names, i) ==
    IF i > Len(names) THEN st
    ELSE LET p   == ColPos(st.df, names[i])
             col == st.df[p]
         IN  IF ToDatetimeRaises(col)
             THEN FallbackLoop([st EXCEPT !.attempts = @ + 1], names, i + 1)
             ELSE FallbackLoop([df        |-> [st.df EXCEPT ![p] = ToDatetime(col)],
                                date_cols |-> Append(st.date_cols, names[i]),
                                attempts  |-> st.attempts + 1],
                               names, i + 1)

\* the test of line 125 inverted
NeedsFallbackInverted(date_cols) == Len(date_cols) > 0

\* line 125: the fallback runs when no column is datetime
NeedsFallback(date_cols) == Len(date_cols) = 0

\* lines 124-132: [df, date_cols, attempts, ran]
DateColumns(df) ==
    LET date_cols == SelectDtypes(df, DatetimeDtypes)
    IN  IF NeedsFallback(date_cols)
        THEN LET st == FallbackLoop([df |-> df, date_cols |-> date_cols, attempts |-> 0],
                                    SelectDtypes(df, ObjectDtypes), 1)
             IN  [df |-> st.df, date_cols |-> st.date_cols,
                  attempts |-> st.attempts, ran |-> TRUE]
        ELSE [df |-> df, date_cols |-> date_cols, attempts |-> 0, ran |-> FALSE]

(***************************************************************************)
(* df.set_index(date_col)[value_col].resample(rule).mean()  (lines 140-143)*)
(***************************************************************************)
freq_map(f) ==
    CASE f = "Day" -> "D" [] f = "Week" -> "W" [] f = "Month" -> "M" [] f = "Year" -> "Y"

FreqOptions == <<"Day", "Week", "Month", "Year">>

YearOf(d)  == d \div 10000
MonthOf(d) == (d \div 100) % 100
DayOf(d)   == d % 100
IsLeap(y)  == y % 4 = 0 /\ (y % 100 # 0 \/ y % 400 = 0)
DaysBeforeMonth == <<0, 31, 59, 90, 120, 151, 181, 212, 243, 273, 304, 334>>

\* days from Sunday 2023-01-01 to the date
DayNum(d) ==
    LET y == YearOf(d)
    IN  (y - 2023) * 365 + ((y - 1) \div 4 - 2022 \div 4)
        + DaysBeforeMonth[MonthOf(d)]
        + (IF IsLeap(y) /\ MonthOf(d) > 2 THEN 1 ELSE 0)
        + DayOf(d) - 1

\* the number of the bucket a date falls in: calendar days, weeks ending on
\* Sunday, calendar months, calendar years; consecutive buckets have
\* consecutive numbers
Bucket(rule, d) ==
    CASE rule = "D" -> DayNum(d)
      [] rule = "W" -> (DayNum(d) + 6) \div 7
      [] rule = "M" -> YearOf(d) * 12 + MonthOf(d) - 1
      [] rule = "Y" -> YearOf(d)

RECURSIVE SumOver(_, _)
SumOver(S, f) ==
    IF S = {} THEN 0
    ELSE LET x == CHOOSE x \in S : TRUE IN f[x] + SumOver(S \ {x}, f)

SetMin(S) == CHOOSE x \in S : \A y \in S : x <= y
SetMax(S) == CHOOSE x \in S : \A y \in S : x >= y

\* rows of the bucket b: NaT labels belong to no bucket
RowsIn(index, rule, b) ==
    { j \in DOMAIN index : index[j].k = "date" /\ Bucket(rule, index[j].n) = b }

\* mean() of the values of the rows J, NaN skipped: NaN when none is left,
\* else the sum (in halves) over the count
MeanOf(values, J) ==
    LET K == { j \in J : values[j].k = "num" }
    IN  IF K = {} THEN [nan |-> TRUE, sum |-> 0, cnt |-> 0]
        ELSE [nan |-> FALSE, sum |-> SumOver(K, [j \in K |-> values[j].n]),
              cnt |-> Cardinality(K)]

\* a resample that lays out bins for the occupied buckets only
BinsOccupiedOnly(index, rule) ==
    LET B == { Bucket(rule, index[j].n) : j \in { i \in DOMAIN index : index[i].k = "date" } }
        nth(i) == CHOOSE b \in B : Cardinality({ c \in B : c < b }) = i - 1
    IN  [i \in 1..Cardinality(B) |-> nth(i)]

\* the bins resample lays out: every bucket from the first dated row's to the
\* last dated row's
Bins(index, rule) ==
    LET B == { Bucket(rule, index[j].n) : j \in { i \in DOMAIN index : index[i].k = "date" } }
    IN  IF B = {} THEN << >>
        ELSE [i \in 1..(SetMax(B) - SetMin(B) + 1) |-> SetMin(B) + i - 1]

\* the resampled series: one entry (bucket, mean) per bin
Resample(df, date_col, value_col, f) ==
    LET index  == df[ColPos(df, date_col)].cells
        values == df[ColPos(df, value_col)].cells
        bins   == Bins(index, freq_map(f))
    IN  [i \in DOMAIN bins |->
            [bucket |-> bins[i],
             mean   |-> MeanOf(values, RowsIn(index, freq_map(f), bins[i]))]]

(***************************************************************************)
(* df[numeric_cols].corr()  (line 79): Pearson, pairwise complete rows.    *)
(* A correlation r is kept exactly as [nan, s, d]: r*|r| = s/d, d > 0.     *)
(***************************************************************************)
NaNCorr == [nan |-> TRUE, s |-> 0, d |-> 1]

Pearson(x, y) ==
    LET P   == { j \in DOMAIN x : x[j].k = "num" /\ y[j].k = "num" }
        n   == Cardinality(P)
        sx  == SumOver(P, [j \in P |-> x[j].n])
        sy  == SumOver(P, [j \in P |-> y[j].n])
        sxy == SumOver(P, [j \in P |-> x[j].n * y[j].n])
        sxx == SumOver(P, [j \in P |-> x[j].n * x[j].n])
        syy == SumOver(P, [j \in P |-> y[j].n * y[j].n])
        cov == n * sxy - sx * sy
        vx  == n * sxx - sx * sx
        vy  == n * syy - sy * sy
    IN  IF vx * vy = 0 THEN NaNCorr
        ELSE [nan |-> FALSE,
              s   |-> (IF cov < 0 THEN -1 ELSE 1) * cov * cov,
              d   |-> vx * vy]

\* the matrix over the columns `cols` of df
CorrMatrix(df, cols) ==
    [i \in 1..Len(cols) |-> [j \in 1..Len(cols) |->
        Pearson(df[ColPos(df, cols[i])].cells, df[ColPos(df, cols[j])].cells)]]

(***************************************************************************)
(* Top 5 correlations (lines 87-96)                                        *)
(***************************************************************************)
\* lines 88-94: the pairs (i, j), j after i, row by row
RECURSIVE CorrPairsFrom(_, _, _, _)
CorrPairsFrom(m, cols, i, j) ==
    IF i > Len(cols) THEN << >>
    ELSE IF j > Len(cols) THEN CorrPairsFrom(m, cols, i + 1, i + 2)
    ELSE <<[v1 |-> cols[i], v2 |-> cols[j], corr |-> m[i][j]]>>
         \o CorrPairsFrom(m, cols, i, j + 1)

CorrPairs(m, cols) == CorrPairsFrom(m, cols, 1, 2)

CorrGt(a, b) == ~a.nan /\ ~b.nan /\ a.s * b.d > b.s * a.d
CorrEq(a, b) == ~a.nan /\ ~b.nan /\ a.s * b.d = b.s * a.d

\* nlargest with equal values in reverse order of appearance (keep='last')
ComesBeforeKeepLast(rows, i, j) ==
    IF rows[i].corr.nan THEN rows[j].corr.nan /\ i < j
    ELSE IF rows[j].corr.nan THEN TRUE
    ELSE CorrGt(rows[i].corr, rows[j].corr)
         \/ (CorrEq(rows[i].corr, rows[j].corr) /\ i > j)

\* the row at position i comes before the row at position j in nlargest's
\* order: larger values first, equal values in order of appearance, NaN last
ComesBefore(rows, i, j) ==
    IF rows[i].corr.nan THEN rows[j].corr.nan /\ i < j
    ELSE IF rows[j].corr.nan THEN TRUE
    ELSE CorrGt(rows[i].corr, rows[j].corr)
         \/ (CorrEq(rows[i].corr, rows[j].corr) /\ i < j)

NLargestCount == 5

\* DataFrame.nlargest(n, 'Correlation'), keep='first'
NLargest(rows, n) ==
    LET rank(i) == Cardinality({ j \in DOMAIN rows : ComesBefore(rows, j, i) }) + 1
        kept    == IF n < Len(rows) THEN n ELSE Len(rows)
    IN  [k \in 1..kept |-> rows[CHOOSE i \in DOMAIN rows : rank(i) = k]]

TopCorrelations(m, cols) == NLargest(CorrPairs(m, cols), NLargestCount)

(***************************************************************************)
(* df.to_csv(index=False)  (line 152)                                      *)
(***************************************************************************)
\* the text to_csv writes for a value: a number by its dtype, a date as
\* yyyy-mm-dd, a boolean (of a bool column, or held by an object column) as
\* str() gives it, a string as it is
FormatCell(dtype, v) ==
    IF v.k = "na" THEN MissingText
    ELSE IF dtype = "int64" THEN FormatInt(v.n)
    ELSE IF dtype = "float64" THEN FormatFloat(v.n)
    ELSE IF dtype = "datetime64" THEN FormatDate(v.n)
    ELSE IF v.k = "bool" THEN FormatBool(v.n)
    ELSE v.s

\* the exported text: the header line and, column by column, the cell texts
ToCsv(df) ==
    [header |-> [i \in 1..Len(df) |-> df[i].name],
     cols   |-> [i \in 1..Len(df) |->
                    [j \in DOMAIN df[i].cells |-> FormatCell(df[i].dtype, df[i].cells[j])]]]

(***************************************************************************)
(* One run of the script (lines 32-160).  The px.* and st.plotly_chart     *)
(* calls are the external renderer: a view handed to them counts as        *)
(* rendered unless the call raises.  An exception ends the run where it is *)
(* raised.                                                                 *)
(***************************************************************************)
VizOptions == <<"Distribution Plots", "Correlation Analysis", "Scatter Plots",
                "Box Plots", "Time Series Analysis">>

NoCsv == [has |-> FALSE, header |-> << >>, cols |-> << >>]

\* st.selectbox(label, options): the option at the chosen position, None
\* (here "") when there are no options
SelectBox(options, sel) == IF Len(options) = 0 THEN "" ELSE options[sel]

\* what a run has produced when it has produced nothing yet
BlankRun ==
    [loaded         |-> FALSE,    \* read_csv returned a dataframe
     df0            |-> << >>,    \* df as read by line 36
     df             |-> << >>,    \* df where the run ended
     numeric_cols   |-> << >>,    \* line 63
     date_cols      |-> << >>,    \* line 64, then lines 124-130
     category_cols  |-> << >>,    \* line 114
     outcome        |-> "info",   \* info, rendered, advisory, nothing, error
     message        |-> "",       \* the st.info / st.warning text, the exception
     fallback_ran   |-> FALSE,    \* the loop of lines 127-132 was entered
     attempts       |-> 0,        \* calls of pd.to_datetime
     ts_widgets     |-> FALSE,    \* lines 135-139 drew their select boxes
     color_widget   |-> FALSE,    \* line 105 drew its select box
     corr_cols      |-> << >>,    \* columns of the heat map
     top            |-> << >>,    \* the top-5 table
     series         |-> << >>,    \* the resampled series
     reached_export |-> FALSE,    \* the run got to line 151
     csv            |-> NoCsv]    \* the text offered for download

\* lines 77-96
CorrelationView(r) ==
    IF Len(r.numeric_cols) > 1
    THEN [r EXCEPT !.outcome = "rendered",
                   !.corr_cols = r.numeric_cols,
                   !.top = TopCorrelations(CorrMatrix(r.df, r.numeric_cols),
                                           r.numeric_cols)]
    ELSE [r EXCEPT !.outcome = "nothing"]

\* lines 112-120
BoxView(r) ==
    LET category_cols == SelectDtypes(r.df, ObjectDtypes)
    IN  IF Len(category_cols) > 0
        THEN [r EXCEPT !.category_cols = category_cols, !.outcome = "rendered"]
        ELSE [r EXCEPT !.outcome = "advisory",
                       !.message = "No categorical columns found for box plots"]

\* lines 122-148
TimeSeriesView(r, dsel, vsel, f) ==
    LET dc == DateColumns(r.df)
        r1 == [r EXCEPT !.df = dc.df, !.date_cols = dc.date_cols,
                        !.fallback_ran = dc.ran, !.attempts = dc.attempts]
    IN  IF Len(dc.date_cols) > 0
        THEN LET date_col  == SelectBox(dc.date_cols, dsel)
                 value_col == SelectBox(r.numeric_cols, vsel)
             IN  IF value_col = ""
                 THEN \* df_time[None] raises KeyError (line 143)
                      [r1 EXCEPT !.ts_widgets = TRUE, !.outcome = "error",
                                 !.message = "KeyError"]
                 ELSE [r1 EXCEPT !.ts_widgets = TRUE, !.outcome = "rendered",
                                 !.series = Resample(dc.df, date_col, value_col, f)]
        ELSE [r1 EXCEPT !.outcome = "advisory",
                        !.message = "No datetime columns found for time series analysis"]

\* the kind px compares the columns of a wide-form frame by: the numeric
\* dtypes are one kind, every other dtype a kind of its own
Kind(dtype) == IF dtype \in NumericDtypes THEN "number" ELSE dtype

\* px.histogram, px.violin and px.scatter handed None for their columns take
\* the columns of df other than the colour column (position skip, 0 for
\* none) as the values of a wide-form frame and raise ValueError unless
\* these are of one kind
WideFormRaises(df, skip) ==
    \E i, j \in DOMAIN df \ {skip} : Kind(df[i].dtype) # Kind(df[j].dtype)

\* lines 66-75: the select boxes over numeric_cols give None when there is
\* no numeric column
DistributionView(r) ==
    IF Len(r.numeric_cols) = 0 /\ WideFormRaises(r.df, 0)
    THEN [r EXCEPT !.outcome = "error", !.message = "ValueError"]
    ELSE [r EXCEPT !.outcome = "rendered"]

\* lines 98-110: the colour select box offers "None" and every column of df
\* and is drawn before the figure is made
ScatterView(r, color) ==
    IF Len(r.numeric_cols) = 0 /\ WideFormRaises(r.df, color)
    THEN [r EXCEPT !.color_widget = TRUE, !.outcome = "error", !.message = "ValueError"]
    ELSE [r EXCEPT !.color_widget = TRUE, !.outcome = "rendered"]

\* lines 66-148
View(r, viz, dsel, vsel, f, color) ==
    CASE viz = "Distribution Plots"   -> DistributionView(r)
      [] viz = "Correlation Analysis" -> CorrelationView(r)
      [] viz = "Scatter Plots"        -> ScatterView(r, color)
      [] viz = "Box Plots"            -> BoxView(r)
      [] viz = "Time Series Analysis" -> TimeSeriesView(r, dsel, vsel, f)

\* lines 150-158
Export(r, click) ==
    IF r.outcome = "error" THEN r
    ELSE [r EXCEPT !.reached_export = TRUE,
                   !.csv = IF click
                           THEN [has |-> TRUE, header |-> ToCsv(r.df).header,
                                 cols |-> ToCsv(r.df).cols]
                           ELSE NoCsv]

\* line 36: the dataframe every run starts from
LoadDf(up) == ReadCsv(up)

RunScript(up, viz, dsel, vsel, f, color, click) ==
    IF ~up.has
    THEN [BlankRun EXCEPT !.message = "Please upload a CSV file to begin analysis"]
    ELSE IF ReadCsvRaises(up)
    THEN [BlankRun EXCEPT !.outcome = "error", !.message = "EmptyDataError"]
    ELSE LET df == LoadDf(up)
             r  == [BlankRun EXCEPT !.loaded = TRUE, !.df0 = df, !.df = df,
                       !.numeric_cols = SelectDtypes(df, NumericDtypes),
                       !.date_cols = SelectDtypes(df, DatetimeDtypes)]
         IN  Export(View(r, viz, dsel, vsel, f, color), click)

(***************************************************************************)
(* The session                                                             *)
(***************************************************************************)
DefaultViz  == VizOptions[1]
DefaultFreq == FreqOptions[1]

Idle == [done |-> FALSE, rows |-> << >>]
NoArg == [kind |-> "none"]

\* a run and the history it leaves
Ran(r) ==
    /\ run' = r
    /\ last_loaded' = IF r.loaded THEN r.df0 ELSE last_loaded
    /\ UNCHANGED <<candidate, fn_in, fn_out>>

Init ==
    /\ \E s \in Shapes : candidate \in CsvFiles(s[1], s[2])
    /\ uploaded_file = NoUpload
    /\ viz_type = DefaultViz
    /\ date_sel = 1
    /\ value_sel = 1
    /\ freq = DefaultFreq
    /\ color_sel = 0
    /\ run = RunScript(NoUpload, DefaultViz, 1, 1, DefaultFreq, 0, FALSE)
    /\ last_loaded = << >>
    /\ fn_in = NoArg
    /\ fn_out = Idle

\* the user uploads a file: the one held, or one of no bytes.  No statement
\* of the script resets a widget: a select box that the previous run drew and
\* that this run draws again with the same options keeps its value, and one
\* that either run does not draw starts from its first option.
Upload(f) ==
    LET viz  == IF run.loaded /\ ~ReadCsvRaises(f) THEN viz_type ELSE DefaultViz
        \* the options this run offers do not depend on the positions chosen
        opts == RunScript(Uploaded(f), viz, 1, 1, DefaultFreq, 0, FALSE)
        both == run.ts_widgets /\ opts.ts_widgets
    IN  /\ uploaded_file' = Uploaded(f)
        /\ viz_type' = viz
        /\ date_sel' = IF both /\ opts.date_cols = run.date_cols THEN date_sel ELSE 1
        /\ value_sel' = IF both /\ opts.numeric_cols = run.numeric_cols
                        THEN value_sel ELSE 1
        /\ freq' = IF both THEN freq ELSE DefaultFreq
        /\ color_sel' = IF /\ run.color_widget /\ opts.color_widget
                           /\ SelectDtypes(opts.df, AllDtypes) = SelectDtypes(run.df, AllDtypes)
                        THEN color_sel ELSE 0
        /\ Ran(RunScript(uploaded_file', viz_type', date_sel', value_sel', freq', color_sel', FALSE))

\* the user removes the uploaded file
RemoveFile ==
    /\ uploaded_file.has
    /\ uploaded_file' = NoUpload
    /\ viz_type' = DefaultViz
    /\ date_sel' = 1
    /\ value_sel' = 1
    /\ freq' = DefaultFreq
    /\ color_sel' = 0
    /\ Ran(RunScript(NoUpload, DefaultViz, 1, 1, DefaultFreq, 0, FALSE))

\* the user picks another visualization
SelectViz(v) ==
    /\ run.loaded
    /\ v # viz_type
    /\ viz_type' = v
    /\ date_sel' = 1
    /\ value_sel' = 1
    /\ freq' = DefaultFreq
    /\ color_sel' = 0
    /\ UNCHANGED uploaded_file
    /\ Ran(RunScript(uploaded_file, v, 1, 1, DefaultFreq, 0, FALSE))

\* the user picks another date column
SelectDateCol(i) ==
    /\ run.ts_widgets
    /\ i # date_sel
    /\ date_sel' = i
    /\ UNCHANGED <<uploaded_file, viz_type, value_sel, freq, color_sel>>
    /\ Ran(RunScript(uploaded_file, viz_type, i, value_sel, freq, color_sel, FALSE))

\* the user picks another value column
SelectValueCol(i) ==
    /\ run.ts_widgets
    /\ i # value_sel
    /\ value_sel' = i
    /\ UNCHANGED <<uploaded_file, viz_type, date_sel, freq, color_sel>>
    /\ Ran(RunScript(uploaded_file, viz_type, date_sel, i, freq, color_sel, FALSE))

\* the user picks another frequency
SelectFreq(f) ==
    /\ run.ts_widgets
    /\ f # freq
    /\ freq' = f
    /\ UNCHANGED <<uploaded_file, viz_type, date_sel, value_sel, color_sel>>
    /\ Ran(RunScript(uploaded_file, viz_type, date_sel, value_sel, f, color_sel, FALSE))

\* the user picks another colour variable, or "None" (position 0)
SelectColor(i) ==
    /\ run.color_widget
    /\ i # color_sel
    /\ color_sel' = i
    /\ UNCHANGED <<uploaded_file, viz_type, date_sel, value_sel, freq>>
    /\ Ran(RunScript(uploaded_file, viz_type, date_sel, value_sel, freq, i, FALSE))

\* the user presses "Download Processed Data"
ClickDownload ==
    /\ run.reached_export
    /\ UNCHANGED <<uploaded_file, viz_type, date_sel, value_sel, freq, color_sel>>
    /\ Ran(RunScript(uploaded_file, viz_type, date_sel, value_sel, freq, color_sel, TRUE))

\* any other interaction (the preview check box): the script runs again
Rerun ==
    /\ run.loaded
    /\ UNCHANGED <<uploaded_file, viz_type, date_sel, value_sel, freq, color_sel>>
    /\ Ran(RunScript(uploaded_file, viz_type, date_sel, value_sel, freq, color_sel, FALSE))

Next ==
    \/ \E f \in {candidate, EmptyFile} : Upload(f)
    \/ RemoveFile
    \/ \E v \in Range(VizOptions) : SelectViz(v)
    \/ \E i \in 1..Len(run.date_cols) : SelectDateCol(i)
    \/ \E i \in 1..Len(run.numeric_cols) : SelectValueCol(i)
    \/ \E f \in Range(FreqOptions) : SelectFreq(f)
    \/ \E i \in 0..Len(run.df) : SelectColor(i)
    \/ ClickDownload
    \/ Rerun

Spec == Init /\ [][Next]_vars

(***************************************************************************)
(* resample on its own: the dataframe of a time-series request (a datetime *)
(* column, as the fallback leaves it, and a numeric column) and the        *)
(* frequency are drawn at the start, and the one step applies lines        *)
(* 140-143 to them.                                                        *)
(***************************************************************************)
DateSamples  == {20231230, 20240101, 20240103, 20250102}
ValueSamples == {2, 3}

DateCells(r)  == { c \in [1..r -> {Date(d) : d \in DateSamples} \cup {NA}] :
                     \E j \in 1..r : c[j] # NA }
ValueCells(r) == [1..r -> {Num(h) : h \in ValueSamples} \cup {NA}]

\* the dataframes of r rows
TimeFrames(r) ==
    { << [name |-> ColNames[1], dtype |-> "datetime64", cells |-> d],
         [name |-> ColNames[2], dtype |-> "float64",    cells |-> v] >> :
      d \in DateCells(r), v \in ValueCells(r) }

Parked ==
    /\ candidate = EmptyFile
    /\ uploaded_file = NoUpload
    /\ viz_type = DefaultViz
    /\ date_sel = 1
    /\ value_sel = 1
    /\ freq = DefaultFreq
    /\ color_sel = 0
    /\ run = RunScript(NoUpload, DefaultViz, 1, 1, DefaultFreq, 0, FALSE)
    /\ last_loaded = << >>

InitResample ==
    /\ Parked
    /\ \E r \in 1..MaxRows : \E t \in TimeFrames(r) : \E f \in Range(FreqOptions) :
           fn_in = [kind |-> "resample", df |-> t, f |-> f]
    /\ fn_out = Idle

DoResample ==
    /\ ~fn_out.done
    /\ fn_out' = [done |-> TRUE,
                  rows |-> Resample(fn_in.df, ColNames[1], ColNames[2], fn_in.f)]
    /\ UNCHANGED <<candidate, uploaded_file, viz_type, date_sel, value_sel, freq, color_sel,
                   run, last_loaded, fn_in>>

SpecResample == InitResample /\ [][DoResample]_vars

(***************************************************************************)
(* The top-5 selection on its own: a correlation matrix (symmetric, the    *)
(* diagonal 1) is drawn at the start, and the one step applies lines 87-96 *)
(* to it.                                                                  *)
(***************************************************************************)
CorrOf(v) == [nan |-> FALSE, s |-> v, d |-> 1]
CorrSamples == {CorrOf(-1), CorrOf(0), CorrOf(1)}

UpperPairs(n) == { p \in (1..n) \X (1..n) : p[1] < p[2] }

\* the matrix of n columns of which those in K are constant (every
\* correlation with a constant column is NaN), u giving the others
MatrixOf(n, K, u) ==
    [i \in 1..n |-> [j \in 1..n |->
        IF i \in K \/ j \in K THEN NaNCorr
        ELSE IF i = j THEN CorrOf(1)
        ELSE IF i < j THEN u[<<i, j>>] ELSE u[<<j, i>>]]]

\* the matrices of n columns of which those in K are constant
Matrices(n, K) ==
    { [kind |-> "corr", m |-> MatrixOf(n, K, u), cols |-> SubSeq(ColNames, 1, n)] :
      u \in [{ p \in UpperPairs(n) : p[1] \notin K /\ p[2] \notin K } -> CorrSamples] }

InitTop ==
    /\ Parked
    /\ \E n \in 2..MaxCorrCols : \E K \in SUBSET (1..n) : fn_in \in Matrices(n, K)
    /\ fn_out = Idle

DoTop ==
    /\ ~fn_out.done
    /\ fn_out' = [done |-> TRUE, rows |-> TopCorrelations(fn_in.m, fn_in.cols)]
    /\ UNCHANGED <<candidate, uploaded_file, viz_type, date_sel, value_sel, freq, color_sel,
                   run, last_loaded, fn_in>>

SpecTop == InitTop /\ [][DoTop]_vars

(***************************************************************************)
(* Properties                                                              *)
(***************************************************************************)
TS == "Time Series Analysis"

\* the upload as read_csv takes it: its header line is the first line that
\* is not blank, its rows are the other lines that are not blank
Headers == Head(NonBlankLines(uploaded_file))
Rows    == Tail(NonBlankLines(uploaded_file))
Columns == 1..Len(Headers)

\* the texts of column i of the upload's rows
Texts(i) == [j \in 1..Len(Rows) |-> Rows[j][i]]

\* a column whose non-missing texts are all dates, and which has no row or
\* a non-missing text: read_csv leaves it text, and every value of it parses
FullyParses(i) ==
    /\ Len(Texts(i)) = 0 \/ NonMissing(Texts(i)) # {}
    /\ NonMissing(Texts(i)) \subseteq DateTexts

\* ---- C1 ----------------------------------------------------------------
OccupiedBuckets ==
    { Bucket(freq_map(fn_in.f), fn_in.df[1].cells[j].n) :
        j \in { i \in DOMAIN fn_in.df[1].cells : fn_in.df[1].cells[i].k = "date" } }

SeriesBuckets == { fn_out.rows[i].bucket : i \in DOMAIN fn_out.rows }

\* C1 as stated: the resampled series has one entry per bucket that holds a
\* row and no entry for a bucket that holds none, so rows in k distinct
\* buckets give exactly k entries.
C1_EmptyBucketsOmitted ==
    fn_out.done =>
        /\ SeriesBuckets = OccupiedBuckets
        /\ Len(fn_out.rows) = Cardinality(OccupiedBuckets)

\* C1 amended: the resampled series has one entry for every bucket from the
\* first occupied one to the last, in order; the entry of a bucket with a
\* non-missing value is the mean of its non-missing values, and the entry of
\* a bucket with none (no row at all, or only missing values) is NaN, never 0.
C1_SeriesSpansFirstToLast ==
    fn_out.done =>
        LET lo    == SetMin(OccupiedBuckets)
            hi    == SetMax(OccupiedBuckets)
            dates == fn_in.df[1].cells
            vals  == fn_in.df[2].cells
            rule  == freq_map(fn_in.f)
        IN  /\ Len(fn_out.rows) = hi - lo + 1
            /\ \A i \in DOMAIN fn_out.rows :
                 LET e == fn_out.rows[i]
                     K == { j \in DOMAIN dates :
                              /\ dates[j].k = "date"
                              /\ Bucket(rule, dates[j].n) = e.bucket
                              /\ vals[j].k = "num" }
                 IN  /\ e.bucket = lo + i - 1
                     /\ e.mean.nan <=> K = {}
                     /\ K # {} => /\ e.mean.cnt = Cardinality(K)
                                  /\ e.mean.sum = SumOver(K, [j \in K |-> vals[j].n])

\* a series with the entry of an empty bucket between two occupied ones
C1_Witness ==
    /\ fn_out.done
    /\ Cardinality(OccupiedBuckets) = 2
    /\ \E i \in DOMAIN fn_out.rows :
          fn_out.rows[i].bucket \notin OccupiedBuckets /\ fn_out.rows[i].mean.nan

\* ---- C2 ----------------------------------------------------------------
DtypeOf(df, name) == df[ColPos(df, name)].dtype

\* C2 as stated: once a time-series request has converted a column, the
\* column is temporal at the start of every later run on the same upload,
\* and a later run does not enter the fallback parse again.
C2_UpgradePersists ==
    [][ (uploaded_file' = uploaded_file /\ run'.loaded /\ Len(run.date_cols) > 0)
        => /\ \A c \in Range(run.date_cols) : DtypeOf(run'.df0, c) = "datetime64"
           /\ ~run'.fallback_ran ]_vars

\* C2 amended: the upgrade lasts to the end of the run that made it and no
\* longer.  Every run starts from the file read again, where no column is
\* temporal; every time-series request enters the fallback parse, and the
\* columns it converts (the same ones each time: those that fully parse) are
\* temporal where the run ends, the export included.
C2_UpgradeLastsOneRun ==
    run.loaded =>
        /\ \A i \in DOMAIN run.df0 : run.df0[i].dtype # "datetime64"
        /\ viz_type = TS =>
            /\ run.fallback_ran
            /\ Range(run.date_cols) = { run.df0[i].name : i \in { k \in Columns : FullyParses(k) } }
            /\ \A c \in Range(run.date_cols) : DtypeOf(run.df, c) = "datetime64"
        /\ viz_type # TS => ~run.fallback_ran /\ run.df = run.df0

\* a download pressed in the time-series view: the run converts again and
\* exports the converted column
C2_Witness ==
    /\ viz_type = TS
    /\ run.fallback_ran
    /\ Len(run.date_cols) > 0
    /\ run.csv.has

\* ---- C3 ----------------------------------------------------------------
\* C3 as stated: the exported text has the headers and the row count of the
\* upload and the original text of every non-missing cell.
C3_RoundTrip ==
    run.csv.has =>
        /\ run.csv.header = uploaded_file.header
        /\ DOMAIN run.csv.cols = DOMAIN uploaded_file.cols
        /\ \A i \in DOMAIN uploaded_file.cols :
             /\ DOMAIN run.csv.cols[i] = DOMAIN uploaded_file.cols[i]
             /\ \A j \in DOMAIN uploaded_file.cols[i] :
                  uploaded_file.cols[i][j] # MissingText
                      => run.csv.cols[i][j] = uploaded_file.cols[i][j]

\* C3 amended: the exported text has the columns and the rows of the upload
\* as read_csv takes it (blank lines left out, the first line left being
\* the header line) and keeps every missing cell missing.  A header is the
\* one of that header line, except
\* that a blank header is exported as "Unnamed: p", p the 0-based position
\* of the column, and a header that repeats k headers to its left as
\* "header.k".  A cell of a numeric column is written as the canonical text
\* of its number (1.50 as 1.5, and 1 as 1.0 in a float column); a cell of a
\* column whose non-missing texts are all booleans as True or False,
\* whatever its spelling; a cell of a column the fallback converted in this
\* run as the ISO text of its date; any other cell has its original text.
C3_ExportCanonical ==
    run.csv.has =>
        /\ DOMAIN run.csv.header = Columns
        /\ DOMAIN run.csv.cols = Columns
        /\ \A i \in Columns :
             LET k == Cardinality({ l \in 1..(i - 1) : Headers[l] = Headers[i] })
             IN  IF Headers[i] = BlankHeader
                 THEN run.csv.header[i] =
                        <<"Unnamed: 0", "Unnamed: 1", "Unnamed: 2", "Unnamed: 3">>[i]
                 ELSE IF k = 0 THEN run.csv.header[i] = Headers[i]
                 ELSE Headers[i] = "c1" /\ k = 1 /\ run.csv.header[i] = "c1.1"
        /\ \A i \in Columns :
             /\ DOMAIN run.csv.cols[i] = DOMAIN Texts(i)
             /\ \A j \in DOMAIN Texts(i) :
                  LET t   == Texts(i)[j]
                      out == run.csv.cols[i][j]
                      num == NonMissing(Texts(i)) \subseteq NumTexts
                      int == NonMissing(Texts(i)) \subseteq IntTexts /\ ~HasMissing(Texts(i))
                      bool == NonMissing(Texts(i)) \subseteq BoolTexts
                      conv == viz_type = TS /\ FullyParses(i)
                  IN  IF t = MissingText THEN out = MissingText
                      ELSE IF num /\ int THEN out = t
                      ELSE IF num /\ t \in IntTexts THEN out = "1.0"
                      ELSE IF num THEN out = "1.5"
                      ELSE IF bool /\ t = "True" THEN out = "True"
                      ELSE IF bool THEN t = "false" /\ out = "False"
                      ELSE IF conv /\ t \in IsoDateTexts THEN out = t
                      ELSE IF conv THEN out = "2024-01-03"
                      ELSE out = t

\* an export in the time-series view of a header that read_csv renamed, of
\* a boolean whose spelling has changed and of a date the fallback converted
C3_Witness ==
    /\ run.csv.has
    /\ viz_type = TS
    /\ \E i \in Columns : run.csv.header[i] # Headers[i]
    /\ \E i \in Columns :
         /\ run.df[i].dtype = "bool"
         /\ \E j \in DOMAIN Texts(i) : run.csv.cols[i][j] # Texts(i)[j]
    /\ \E i \in Columns :
         /\ run.df[i].dtype = "datetime64"
         /\ \E j \in DOMAIN Texts(i) : run.csv.cols[i][j] # Texts(i)[j]

\* ---- C4 ----------------------------------------------------------------
\* C4: every run on a loaded dataset ends in a rendered view or an advisory
\* and gets to the export section.
C4_EveryRunCompletes ==
    run.loaded => run.outcome \in {"rendered", "advisory"} /\ run.reached_export

\* ---- C5 ----------------------------------------------------------------
\* C5: the correlation view on fewer than 2 numeric columns produces no
\* matrix and no top-pairs table and reports an advisory; on 2 or more it
\* produces both and reports none.
C5_CorrelationAdvisory ==
    (run.loaded /\ viz_type = "Correlation Analysis") =>
        IF Len(run.numeric_cols) < 2
        THEN run.corr_cols = << >> /\ run.top = << >> /\ run.outcome = "advisory"
        ELSE run.corr_cols = run.numeric_cols /\ Len(run.top) > 0
             /\ run.outcome = "rendered"

\* ---- C6 ----------------------------------------------------------------
TemporalSet(df) == { df[i].name : i \in { k \in DOMAIN df : df[k].dtype = "datetime64" } }

\* C6: a time-series request reports the advisory and produces no series
\* exactly when no column is temporal after the fallback, that is when no
\* text column fully parses; otherwise it reports no advisory and offers
\* exactly the temporal columns.
C6_AdvisoryIffNoTemporal ==
    (run.loaded /\ viz_type = TS) =>
        /\ (run.outcome = "advisory" /\ run.series = << >>) <=> TemporalSet(run.df) = {}
        /\ TemporalSet(run.df) = {} <=> ~\E i \in Columns : FullyParses(i)
        /\ TemporalSet(run.df) # {} =>
             /\ run.message # "No datetime columns found for time series analysis"
             /\ run.ts_widgets
             /\ Range(run.date_cols) = TemporalSet(run.df)

\* a time-series request whose fallback tried text columns and converted none
C6_Witness ==
    /\ run.loaded
    /\ viz_type = TS
    /\ run.attempts > 0
    /\ run.outcome = "advisory"

\* ---- C7 ----------------------------------------------------------------
\* C7: after an upload that cannot be parsed, the session's dataset is the
\* one of the last successful upload and the views operate on it.
C7_FailedUploadKeepsDataset ==
    (uploaded_file.has /\ ReadCsvRaises(uploaded_file) /\ last_loaded # << >>) =>
        /\ run.loaded
        /\ run.df0 = last_loaded
        /\ run.outcome # "error"

\* ---- C8 ----------------------------------------------------------------
ColIdx(name) == CHOOSE i \in DOMAIN ColNames : ColNames[i] = name

\* C8: on a matrix over n >= 2 columns the top-5 table has min(5, n(n-1)/2)
\* rows, each a pair (i, j) with i before j and its matrix value, no pair
\* twice; the values never increase down the table, equal values keep the
\* order in which the pairs are met, and no pair left out has a larger value
\* than a row of the table.
C8_TopFivePairs ==
    fn_out.done =>
        LET n    == Len(fn_in.cols)
            rows == fn_out.rows
            m    == fn_in.m
            I(k) == ColIdx(rows[k].v1)
            J(k) == ColIdx(rows[k].v2)
            all  == (n * (n - 1)) \div 2
        IN  /\ Len(rows) = IF all < 5 THEN all ELSE 5
            /\ \A k \in DOMAIN rows :
                 /\ I(k) < J(k) /\ J(k) <= n
                 /\ rows[k].v1 # rows[k].v2
                 /\ rows[k].corr = m[I(k)][J(k)]
            /\ \A k, l \in DOMAIN rows :
                 k < l =>
                   /\ {rows[k].v1, rows[k].v2} # {rows[l].v1, rows[l].v2}
                   /\ ~CorrGt(rows[l].corr, rows[k].corr)
                   /\ CorrEq(rows[k].corr, rows[l].corr) =>
                        (I(k) < I(l) \/ (I(k) = I(l) /\ J(k) < J(l)))
            /\ \A p \in UpperPairs(n) :
                 (\A k \in DOMAIN rows : <<I(k), J(k)>> # p) =>
                     \A k \in DOMAIN rows : ~CorrGt(m[p[1]][p[2]], rows[k].corr)

\* six pairs cut to five, with equal values among the rows kept and a pair
\* left out that equals the last row
C8_Witness ==
    /\ fn_out.done
    /\ Len(fn_in.cols) = 4
    /\ Len(fn_out.rows) = 5
    /\ CorrEq(fn_out.rows[1].corr, fn_out.rows[2].corr)
    /\ CorrGt(fn_out.rows[2].corr, fn_out.rows[5].corr)
    /\ \E p \in UpperPairs(4) :
         /\ \A k \in 1..5 : <<ColIdx(fn_out.rows[k].v1), ColIdx(fn_out.rows[k].v2)>> # p
         /\ CorrEq(fn_in.m[p[1]][p[2]], fn_out.rows[5].corr)

\* ---- C9 ----------------------------------------------------------------
\* C9: the fallback of a time-series request tries every text column, in
\* stored order; a text column is converted and listed as temporal exactly
\* when all of its non-missing values parse, and any other column keeps its
\* type and its values, whatever came before it in the scan.
C9_FallbackAllOrNothing ==
    (run.loaded /\ viz_type = TS) =>
        /\ run.fallback_ran
        /\ run.attempts = Cardinality({ i \in Columns : run.df0[i].dtype = "object" })
        /\ \A i \in Columns :
             IF run.df0[i].dtype = "object" /\ FullyParses(i)
             THEN /\ run.df[i].dtype = "datetime64"
                  /\ run.df[i].name \in Range(run.date_cols)
                  /\ \A j \in DOMAIN Texts(i) :
                       run.df[i].cells[j].k = (IF Texts(i)[j] = MissingText THEN "na" ELSE "date")
             ELSE /\ run.df[i] = run.df0[i]
                  /\ run.df[i].name \notin Range(run.date_cols)
        /\ \A k, l \in DOMAIN run.date_cols :
             k < l => ColPos(run.df0, run.date_cols[k]) < ColPos(run.df0, run.date_cols[l])
        /\ run.outcome = "error" => run.message = "KeyError"

\* a text column that does not parse, left as it was, before one that the
\* same scan converts
C9_Witness ==
    /\ run.loaded
    /\ viz_type = TS
    /\ \E i, k \in Columns :
         /\ i < k
         /\ run.df0[i].dtype = "object" /\ run.df[i] = run.df0[i]
         /\ run.df0[k].dtype = "object" /\ run.df[k].dtype = "datetime64"

\* ---- C10 ---------------------------------------------------------------
NumericList     == Range(run.numeric_cols)
TemporalList    == Range(run.date_cols)
CategoricalList == Range(SelectDtypes(run.df, ObjectDtypes))
ColumnNames     == { run.df[i].name : i \in DOMAIN run.df }

\* C10 as stated: the numeric, temporal and categorical option lists are
\* pairwise disjoint and every column of the dataset is in one of them.
C10_ListsPartitionColumns ==
    run.loaded =>
        /\ NumericList \cap TemporalList = {}
        /\ NumericList \cap CategoricalList = {}
        /\ TemporalList \cap CategoricalList = {}
        /\ NumericList \cup TemporalList \cup CategoricalList = ColumnNames

\* C10 amended: the three option lists are pairwise disjoint and hold columns
\* of the dataset only; a column is in none of them exactly when it is
\* boolean.
C10_ListsDisjointBoolOmitted ==
    run.loaded =>
        /\ NumericList \cap TemporalList = {}
        /\ NumericList \cap CategoricalList = {}
        /\ TemporalList \cap CategoricalList = {}
        /\ NumericList \cup TemporalList \cup CategoricalList \subseteq ColumnNames
        /\ \A i \in DOMAIN run.df :
             run.df[i].name \notin NumericList \cup TemporalList \cup CategoricalList
                 <=> run.df[i].dtype = "bool"
        /\ \A i \in Columns :
             run.df[i].dtype = "bool" <=> (/\ NonMissing(Texts(i)) # {}
                                          /\ NonMissing(Texts(i)) \subseteq BoolTexts
                                          /\ ~HasMissing(Texts(i)))

\* a dataset with a boolean column, a numeric column and a column the
\* fallback has converted
C10_Witness ==
    /\ run.loaded
    /\ viz_type = TS
    /\ Len(run.date_cols) > 0
    /\ Len(run.numeric_cols) > 0
    /\ \E i \in DOMAIN run.df : run.df[i].dtype = "bool"

====
